---- MODULE Spec2Model ----
(***************************************************************************)
(* State-machine model of the Plainly page agent (PlainlyContentScript):   *)
(* the passive translation pipeline of content-script.ts together with    *)
(* the text extractor and language classifier of text-extractor.ts.       *)
(*                                                                         *)
(* JavaScript runs every callback to completion, so one action is one     *)
(* macrotask: the code from an entry point (a call, a provider response,  *)
(* a timer, a mutation notification) up to the next point where every     *)
(* continuation is awaiting a provider call.                              *)
(***************************************************************************)
EXTENDS Integers, Sequences, FiniteSets, TLC

\* ------------------------------------------------------------------ bounds
\* number of text units of the element that is in the page from the start
NMain == 9
\* number of text units of the large element of the scheduling scenarios
NBig == 80
\* calls of enable() and disable() and structural mutations per behaviour
MaxOps == 4
\* provider calls per behaviour that end as a failure response or a rejected call
MaxFaults == 1
\* the same budget of calls and mutations in the two scheduling scenarios
SchedOps == 2
FlushOps == 3
\* largest number of new nodes handed to the batch partition on its own
NPart == 24
\* longest list of texts in a request to the background coordinator
WorkerTexts == 8
\* calls of enable() and disable() and settings changes in the settings scenario
SetOps == 3
\* calls of enable() and disable() and mutations when every call settles
LiveOps == 3
\* TOGGLE_TRANSLATION messages in the toggle scenario
ToggleOps == 3
\* longest list of texts whose result mapping is examined
MapLen == 3
\* longest list of texts posted to the translation endpoint
ApiLen == 51
\* calls of enable(), disable() and translateSelection() in the selection scenario
SelOps == 3
\* largest number of characters of one class in a text given to the classifier
MaxChars == 5
\* the units that lists given to the viewport sort are made of, and the
\* largest length of such a list
NSort == 6
MaxSortLen == 4

\* ------------------------------------------------------- program constants
MIN_TEXT_LENGTH == 2
MAX_TEXT_LENGTH == 5000
MAX_TEXTS_PER_REQUEST == 8
MAX_CONCURRENT_REQUESTS == 6
SKIP_TAGS == {"SCRIPT", "STYLE", "NOSCRIPT", "IFRAME", "OBJECT", "EMBED", "SVG",
              "CANVAS", "VIDEO", "AUDIO", "CODE", "PRE", "KBD", "VAR", "SAMP",
              "TEXTAREA", "INPUT"}
LanguageCode == {"en", "ko", "ja", "zh", "es", "fr", "de"}

\* ------------------------------------------------------------------ texts
\* A text is known by its identity and by how many of its (trimmed)
\* characters fall in each class the code counts: a = [a-zA-Z],
\* x = [À-ÿ], h = [가-힣], j = kana, c = CJK ideographs,
\* o = everything else.
MkText(id, a, x, h, j, c, o) ==
  [id |-> id, a |-> a, x |-> x, h |-> h, j |-> j, c |-> c, o |-> o]

TextLength(t) == t.a + t.x + t.h + t.j + t.c + t.o

\* the empty string
NoText == MkText(0, 0, 0, 0, 0, 0, 0)

\* text-extractor.ts isNonTranslatable: letterCount / length < 0.3
isNonTranslatable(t) == 10 * (t.a + t.h) < 3 * TextLength(t)

\* a classifier whose thresholds are not strict
detectLanguageLoose(t) ==
  LET koreanChars == t.h
      japaneseChars == t.j
      chineseChars == t.c
      latinChars == t.a + t.x
      total == koreanChars + japaneseChars + chineseChars + latinChars
  IN IF total = 0 THEN "mixed"
     ELSE IF 10 * koreanChars >= 6 * total THEN "ko"
     ELSE IF 10 * japaneseChars >= 3 * total THEN "ja"
     ELSE IF 10 * chineseChars >= 5 * total /\ 10 * japaneseChars <= total THEN "zh"
     ELSE IF 10 * koreanChars <= total /\ 10 * japaneseChars <= total
             /\ 10 * chineseChars <= total THEN "en"
     ELSE "mixed"

\* text-extractor.ts detectLanguage; k / total > 0.6 on counts is
\* 10 * k > 6 * total (the quotient of two counts and the literal round to
\* the same double exactly when they are equal)
detectLanguage(t) ==
  LET koreanChars == t.h
      japaneseChars == t.j
      chineseChars == t.c
      latinChars == t.a + t.x
      total == koreanChars + japaneseChars + chineseChars + latinChars
  IN IF total = 0 THEN "mixed"
     ELSE IF 10 * koreanChars > 6 * total THEN "ko"
     ELSE IF 10 * japaneseChars > 3 * total THEN "ja"
     ELSE IF 10 * chineseChars > 5 * total /\ 10 * japaneseChars < total THEN "zh"
     ELSE IF 10 * koreanChars < total /\ 10 * japaneseChars < total
             /\ 10 * chineseChars < total THEN "en"
     ELSE "mixed"

\* a gate that lets no "mixed" text pass
isSourceLanguageExact(t, sourceLang) == detectLanguage(t) = sourceLang

\* a gate that lets every text through
isSourceLanguageAny(t, sourceLang) == TRUE

\* text-extractor.ts isSourceLanguage
isSourceLanguage(t, sourceLang) ==
  LET detected == detectLanguage(t)
  IN IF detected = "mixed" THEN TRUE ELSE detected = sourceLang

\* What the remote provider writes for one text when it translates it: the
\* same sentence in the script of the target language.  The code does not
\* compute it; it reads it from the provider's content (api/translate.ts
\* 84-91).
ProviderTranslate(t, tgt) ==
  LET n == 4
  IN IF tgt = "ko" THEN MkText(t.id, 0, 0, n, 0, 0, 0)
     ELSE IF tgt = "ja" THEN MkText(t.id, 0, 0, 0, n, 0, 0)
     ELSE IF tgt = "zh" THEN MkText(t.id, 0, 0, 0, 0, n, 0)
     ELSE MkText(t.id, n, 0, 0, 0, 0, 0)

\* ------------------------------------------------------------------- state
VARIABLES
  isEnabled,         \* PlainlyContentScript.isEnabled
  observer,          \* PlainlyContentScript.observer: 0 is null, else the watcher it calls
  shadowObservers,   \* PlainlyContentScript.shadowObservers: the roots they observe
  settings,          \* PlainlyContentScript.settings
  translatingNodes,  \* PlainlyContentScript.translatingNodes (the in-flight set)
  cache,             \* translationCache: <<text, src, tgt>> -> translated text
  body,              \* the elements attached under document.body, in document order
  shown,             \* the text each unit displays
  applied,           \* domTranslator's record of mutated units: unit -> original text
  invs,              \* running translateNodesParallel invocations
  calls,             \* outstanding provider requests (chrome.runtime.sendMessage)
  watchers,          \* per observeDomChanges closure: pendingNodes, debounceTimer
  nInv,              \* invocations that reached a provider call so far
  nW,                \* observeDomChanges closures created so far
  hist,              \* per invocation: number of batches, provider calls per batch
  env,               \* what the environment may still do in this behaviour
  ev,                \* the last step taken
  pin,               \* the input of a function applied on its own
  pout,              \* its result
  selCalls,          \* outstanding provider requests of translateSelection
  tooltip,           \* PlainlyContentScript.tooltip: its display and its text node
  toggles,           \* the TOGGLE_TRANSLATION messages received, in order
  domainAutoTranslate, \* storage: the auto-translate flag of the current domain
  started            \* how far init() has come: "no", "settings", "enabling", "ready",
                     \* "failed"

vars == <<isEnabled, observer, shadowObservers, settings, translatingNodes, cache,
          body, shown, applied, invs, calls, watchers, nInv, nW, hist, env, ev,
          pin, pout, selCalls, tooltip, toggles, domainAutoTranslate, started>>

\* the page agent's own state and the bookkeeping of its requests
agentVars == <<isEnabled, observer, shadowObservers, settings, translatingNodes, cache,
               body, shown, applied, invs, calls, watchers, nInv, nW, hist>>

Range(s) == {s[i] : i \in 1 .. Len(s)}
\* the text units of a set of elements
UnitsOf(es) == UNION {Range(e.light) \cup Range(e.own) \cup Range(e.child) : e \in es}
Min(a, b) == IF a < b THEN a ELSE b
\* F(v), with v evaluated once
With(v, F(_)) == CHOOSE r \in {F(x) : x \in {v}} : TRUE

\* ------------------------------------------------------------ the document
\* Text units are numbered.  Units 1..NBig live in light DOM; the page
\* fragments that scripts add later use the numbers above NBig.
CardUnit == NBig + 1
KoUnit == NBig + 2
WidgetOwnUnit == NBig + 3
WidgetChildUnit == NBig + 4
CodeUnit == NBig + 5

\* what the extractor reads of a text node's parent element
MkParent(tagName, isContentEditable, control, display, visibility, opacity, width, height) ==
  [tagName |-> tagName, isContentEditable |-> isContentEditable, control |-> control,
   display |-> display, visibility |-> visibility, opacity |-> opacity,
   width |-> width, height |-> height]

\* a rendered element with the given tag
Rendered(tagName) == MkParent(tagName, FALSE, FALSE, "block", "visible", "1", 100, 20)

\* Text nodes that probe the extractor's filters one at a time: parent
\* element and character counts (a, x, h, j, c, o) of the trimmed text.
FilterCases ==
  LET plain == <<5, 0, 0, 0, 0, 1>>
      P == Rendered("P")
  IN << [parent |-> P, text |-> plain],
        [parent |-> Rendered("CODE"), text |-> plain],
        [parent |-> Rendered("SCRIPT"), text |-> plain],
        [parent |-> [Rendered("DIV") EXCEPT !.isContentEditable = TRUE], text |-> plain],
        [parent |-> [Rendered("SELECT") EXCEPT !.control = TRUE], text |-> plain],
        [parent |-> P, text |-> <<0, 0, 0, 0, 0, 0>>],
        [parent |-> P, text |-> <<MIN_TEXT_LENGTH - 1, 0, 0, 0, 0, 0>>],
        [parent |-> P, text |-> <<MIN_TEXT_LENGTH, 0, 0, 0, 0, 0>>],
        [parent |-> P, text |-> <<MAX_TEXT_LENGTH, 0, 0, 0, 0, 0>>],
        [parent |-> P, text |-> <<MAX_TEXT_LENGTH + 1, 0, 0, 0, 0, 0>>],
        [parent |-> [P EXCEPT !.display = "none"], text |-> plain],
        [parent |-> [P EXCEPT !.visibility = "hidden"], text |-> plain],
        [parent |-> [P EXCEPT !.opacity = "0"], text |-> plain],
        [parent |-> [P EXCEPT !.width = 0, !.height = 0], text |-> plain],
        [parent |-> [P EXCEPT !.width = 0], text |-> plain],
        [parent |-> P, text |-> <<3, 0, 0, 0, 0, 7>>],
        [parent |-> P, text |-> <<29, 0, 0, 0, 0, 71>>],
        [parent |-> P, text |-> <<0, 5, 0, 0, 0, 0>>],
        [parent |-> P, text |-> <<0, 0, 5, 0, 0, 0>>],
        [parent |-> P, text |-> <<0, 0, 0, 5, 0, 0>>] >>

FilterUnits == (CodeUnit + 1) .. (CodeUnit + Len(FilterCases))
FilterCase(u) == FilterCases[u - CodeUnit]
Units == 1 .. (CodeUnit + Len(FilterCases))

\* original text of a unit; the card repeats the sentence of unit 1, the
\* widget's own text is half Latin and half Hangul
UnitOrig(u) ==
  IF u = CardUnit THEN MkText(1, 5, 0, 0, 0, 0, 1)
  ELSE IF u = KoUnit THEN MkText(u, 0, 0, 5, 0, 0, 1)
  ELSE IF u = WidgetOwnUnit THEN MkText(u, 3, 0, 3, 0, 0, 0)
  ELSE IF u \in FilterUnits
  THEN LET t == FilterCase(u).text IN MkText(u, t[1], t[2], t[3], t[4], t[5], t[6])
  ELSE MkText(u, 5, 0, 0, 0, 0, 1)

\* the unit's parent element; the text nodes of the tooltip have negative
\* numbers and the tooltip div as their parent
Parent(u) ==
  IF u < 0 THEN [Rendered("DIV") EXCEPT !.display = tooltip.display]
  ELSE IF u \in FilterUnits THEN FilterCase(u).parent
  ELSE IF u = CodeUnit THEN Rendered("CODE")
  ELSE Rendered("P")

\* tag of the unit's parent element
ParentTag(u) == Parent(u).tagName

\* whether the unit's parent element intersects the viewport; the tooltip
\* is where showTooltip has put it from the selection range (content-script.ts
\* 336-358), and an element that is not displayed has an empty rectangle
InViewportUnit(u) ==
  IF u < 0 THEN tooltip.display = "block" /\ tooltip.inView ELSE u % 3 # 0

\* An element that a script can attach under the body: its light-DOM text
\* units, the units of its own shadow root and the units of the shadow
\* root of one of its descendants.
MkElem(id, light, hasOwn, own, hasChild, child) ==
  [id |-> id, light |-> light, hasOwn |-> hasOwn, own |-> own,
   hasChild |-> hasChild, child |-> child]

MainElem == MkElem("main", [i \in 1 .. NMain |-> i], FALSE, <<>>, FALSE, <<>>)
BigElem == MkElem("big", [i \in 1 .. NBig |-> i], FALSE, <<>>, FALSE, <<>>)
CardElem == MkElem("card", <<CardUnit, KoUnit, CodeUnit>>, FALSE, <<>>, FALSE, <<>>)
WidgetElem == MkElem("widget", <<>>, TRUE, <<WidgetOwnUnit>>, TRUE, <<WidgetChildUnit>>)
\* the page of the end-to-end scenario: "Hello", "World" and a text in a CODE element
HelloElem == MkElem("hello", <<1, 2, CodeUnit>>, FALSE, <<>>, FALSE, <<>>)
\* content-script.ts 307-324: the div with id plainly-tooltip; its text
\* node is replaced at every showTooltip
TipElem == MkElem("plainly-tooltip", <<>>, FALSE, <<>>, FALSE, <<>>)

\* the text nodes in the light DOM of an element
ElemLight(e) ==
  IF e = TipElem THEN (IF tooltip.node = 0 THEN <<>> ELSE <<-tooltip.node>>) ELSE e.light

\* the messages of translateSelection: '번역 중...', '번역 실패' and
\* '번역 중 오류 발생'
TranslatingText == MkText(-1, 0, 0, 3, 0, 0, 4)
FailedText == MkText(-2, 0, 0, 4, 0, 0, 1)
ErrorText == MkText(-3, 0, 0, 7, 0, 0, 3)

\* ---------------------------------------------------------- text extractor
\* text-extractor.ts filterTextNode (the tree walker's acceptNode)
filterTextNode(u, sh) ==
  /\ ParentTag(u) \notin SKIP_TAGS
  /\ ~Parent(u).isContentEditable
  /\ ~Parent(u).control
  /\ TextLength(sh[u]) > 0
  /\ ~isNonTranslatable(sh[u])

\* a visibility test that accepts every element
isElementVisibleAlways(u) == TRUE

\* text-extractor.ts isElementVisible
isElementVisible(u) ==
  LET style == Parent(u)
      rect == Parent(u)
  IN /\ style.display # "none"
     /\ style.visibility # "hidden"
     /\ style.opacity # "0"
     /\ ~(rect.width = 0 /\ rect.height = 0)

\* the loop body of extractFromNode for the text nodes us of one tree
ExtractFromTree(us, sh) ==
  LET Keep(u) == /\ filterTextNode(u, sh)
                 /\ TextLength(sh[u]) >= MIN_TEXT_LENGTH
                 /\ TextLength(sh[u]) <= MAX_TEXT_LENGTH
                 /\ isElementVisible(u)
      Info(kept) == [i \in 1 .. Len(kept) |-> [node |-> kept[i], originalText |-> sh[kept[i]]]]
  IN With(SelectSeq(us, Keep), Info)

RECURSIVE LightOf(_)
LightOf(els) ==
  IF els = <<>> THEN <<>> ELSE ElemLight(Head(els)) \o LightOf(Tail(els))

\* the shadow roots below a sequence of elements, in querySelectorAll order
RECURSIVE ShadowRootsOf(_)
ShadowRootsOf(els) ==
  IF els = <<>> THEN <<>>
  ELSE LET e == Head(els)
       IN (IF e.hasOwn THEN <<[e |-> e, part |-> "own"]>> ELSE <<>>)
          \o (IF e.hasChild THEN <<[e |-> e, part |-> "child"]>> ELSE <<>>)
          \o ShadowRootsOf(Tail(els))

RootUnits(r) == IF r.part = "own" THEN r.e.own ELSE r.e.child

RECURSIVE ExtractFromShadowRoots(_, _)
ExtractFromShadowRoots(roots, sh) ==
  IF roots = <<>> THEN <<>>
  ELSE ExtractFromTree(RootUnits(Head(roots)), sh)
       \o ExtractFromShadowRoots(Tail(roots), sh)

\* text-extractor.ts extractTextNodes(document.body)
ExtractBody(els, sh) ==
  ExtractFromTree(LightOf(els), sh) \o ExtractFromShadowRoots(ShadowRootsOf(els), sh)

\* text-extractor.ts extractTextNodes(node) for a pending node: an added
\* element (querySelectorAll finds the shadow roots of its descendants, not
\* its own) or a shadow root
extractTextNodes(r, sh) ==
  IF r.part = "el"
  THEN ExtractFromTree(ElemLight(r.e), sh)
       \o (IF r.e.hasChild THEN ExtractFromTree(r.e.child, sh) ELSE <<>>)
  ELSE ExtractFromTree(RootUnits(r), sh)

\* -------------------------------------------------------- provider answers
\* a result mapping that makes one pair per translation
ResultMappingByTranslations(texts, translations) ==
  [i \in 1 .. Len(translations) |->
     [original |-> IF i <= Len(texts) THEN texts[i] ELSE NoText,
      translated |-> translations[i]]]

\* api/translate.ts 133-136: texts.map((original, index) => ({original,
\* translated: translations[index] || original})); a missing translation
\* and the empty string are falsy
ResultMapping(texts, translations) ==
  [i \in 1 .. Len(texts) |->
     [original |-> texts[i],
      translated |-> IF i <= Len(translations) /\ TextLength(translations[i]) > 0
                     THEN translations[i] ELSE texts[i]]]

\* api/translate.ts 92: parsed.translations || []
ParsedTranslations(parsed) == IF parsed.has THEN parsed.translations ELSE <<>>

\* the answers a provider gives to a request: one translation per text,
\* the first translation only, the empty string as first translation, or
\* content without a translations field
ProviderAnswers == {"all", "first", "empty", "none"}

\* api/translate.ts 84-91: the parsed content of the provider's answer
ProviderContent(texts, tgt, got) ==
  LET all == [i \in 1 .. Len(texts) |-> ProviderTranslate(texts[i], tgt)]
  IN IF got = "none" THEN [has |-> FALSE, translations |-> <<>>]
     ELSE IF got = "first" THEN [has |-> TRUE, translations |-> SubSeq(all, 1, 1)]
     ELSE IF got = "empty" THEN [has |-> TRUE, translations |-> [all EXCEPT ![1] = NoText]]
     ELSE [has |-> TRUE, translations |-> all]

\* the data of a success response: the endpoint's pairs for the provider's content
ResponseData(texts, tgt, got) ==
  ResultMapping(texts, ParsedTranslations(ProviderContent(texts, tgt, got)))

\* ------------------------------------------------------------------- cache
CacheKey(t, src, tgt) == <<t, src, tgt>>

\* translationCache.getMultiple
getMultiple(c, texts, src, tgt) ==
  LET idx == [i \in 1 .. Len(texts) |-> i]
      Hit(i) == CacheKey(texts[i], src, tgt) \in DOMAIN c
      Miss(i) == ~Hit(i)
      Split(misses) ==
        [cached |-> SelectSeq(idx, Hit),
         uncached |-> [k \in 1 .. Len(misses) |-> [index |-> misses[k], text |-> texts[misses[k]]]]]
  IN With(SelectSeq(idx, Miss), Split)

\* translationCache.set
cacheSet(c, t, tr, src, tgt) ==
  [k \in DOMAIN c \cup {CacheKey(t, src, tgt)} |->
     IF k = CacheKey(t, src, tgt) THEN tr ELSE c[k]]

\* -------------------------------------------------------- document applier
\* domTranslator.applyTranslations(nodes, results): result i is written to
\* node i; the first mutation of a unit records its original text.  The
\* record st carries the state a macrotask works on.
applyTranslations(st, nodes, results) ==
  LET n == Min(Len(nodes), Len(results))
      Written(u) == {i \in 1 .. n : nodes[i].node = u}
      Last(u) == CHOOSE i \in Written(u) : \A k \in Written(u) : k <= i
      touched == {nodes[i].node : i \in 1 .. n}
  IN [st EXCEPT
        !.applied = [u \in DOMAIN @ \cup touched |->
                       IF u \in DOMAIN @ THEN @[u] ELSE st.shown[u]],
        !.shown = [u \in DOMAIN @ |->
                     IF u \in touched THEN results[Last(u)].translated ELSE @[u]]]

\* domTranslator.restoreOriginal
restoreOriginal(sh, ap) ==
  [u \in DOMAIN sh |-> IF u \in DOMAIN ap THEN ap[u] ELSE sh[u]]

\* ------------------------------------------------------- viewport priority
\* content-script.ts isInViewport(n.parentElement)
isInViewport(n) == InViewportUnit(n.node)

\* a comparator that puts the units outside the viewport first
ViewportCompareReversed(a, b) ==
  (IF isInViewport(a) THEN 1 ELSE 0) - (IF isInViewport(b) THEN 1 ELSE 0)

\* the comparator of sortByViewport: bVisible - aVisible
ViewportCompare(a, b) ==
  (IF isInViewport(b) THEN 1 ELSE 0) - (IF isInViewport(a) THEN 1 ELSE 0)

\* Array.prototype.sort with the comparator above.  The sort is stable, so
\* element i ends behind every element that compares smaller and behind
\* every earlier element that compares equal.
StableSort(nodes) ==
  LET Rank(i) == 1 + Cardinality({j \in 1 .. Len(nodes) :
                                    \/ ViewportCompare(nodes[j], nodes[i]) < 0
                                    \/ ViewportCompare(nodes[j], nodes[i]) = 0 /\ j < i})
      Place(rank) ==
        [r \in 1 .. Len(nodes) |-> nodes[CHOOSE i \in 1 .. Len(nodes) : rank[i] = r]]
  IN With([i \in 1 .. Len(nodes) |-> Rank(i)], Place)

\* content-script.ts sortByViewport: [...nodes].sort(compare)
sortByViewport(nodes) == With(nodes, StableSort)

\* --------------------------------------------------------- batch scheduler
\* a partition loop whose slices are one element too long
RECURSIVE PartitionFromLong(_, _, _)
PartitionFromLong(i, uncached, newNodes) ==
  IF i > Len(uncached) THEN <<>>
  ELSE LET batchIndices == SubSeq(uncached, i, Min(i + MAX_TEXTS_PER_REQUEST, Len(uncached)))
           batchNodes == [k \in 1 .. Len(batchIndices) |-> newNodes[batchIndices[k].index]]
       IN <<[indices |-> batchIndices, nodes |-> batchNodes]>>
          \o PartitionFromLong(i + MAX_TEXTS_PER_REQUEST, uncached, newNodes)

\* a partition loop that takes a batch's nodes by their position among the
\* uncached texts instead of their index among the new nodes
RECURSIVE PartitionFromByPosition(_, _, _)
PartitionFromByPosition(i, uncached, newNodes) ==
  IF i > Len(uncached) THEN <<>>
  ELSE LET batchIndices == SubSeq(uncached, i, Min(i + MAX_TEXTS_PER_REQUEST - 1, Len(uncached)))
           batchNodes == [k \in 1 .. Len(batchIndices) |-> newNodes[i + k - 1]]
       IN <<[indices |-> batchIndices, nodes |-> batchNodes]>>
          \o PartitionFromByPosition(i + MAX_TEXTS_PER_REQUEST, uncached, newNodes)

\* content-script.ts 178-182: the loop that cuts uncached into batches
RECURSIVE PartitionFrom(_, _, _)
PartitionFrom(i, uncached, newNodes) ==
  IF i > Len(uncached) THEN <<>>
  ELSE LET batchIndices == SubSeq(uncached, i, Min(i + MAX_TEXTS_PER_REQUEST - 1, Len(uncached)))
           batchNodes == [k \in 1 .. Len(batchIndices) |-> newNodes[batchIndices[k].index]]
       IN <<[indices |-> batchIndices, nodes |-> batchNodes]>>
          \o PartitionFrom(i + MAX_TEXTS_PER_REQUEST, uncached, newNodes)

Partition(uncached, newNodes) == PartitionFrom(1, uncached, newNodes)

\* translateBatch up to its await: the request handed to sendMessage
SendBatch(id, k, batch, stg) ==
  [inv |-> id, b |-> k,
   nodes |-> [i \in 1 .. Len(batch.nodes) |-> batch.nodes[i].node],
   texts |-> [i \in 1 .. Len(batch.indices) |-> batch.indices[i].text],
   src |-> stg.sourceLang, tgt |-> stg.targetLang]

\* a window loop that launches every remaining batch at once
WindowOfAll(i, nb) == i .. nb

\* content-script.ts 214-216: one window, batches.slice(i, i + MAX_CONCURRENT_REQUESTS)
WindowOf(i, nb) == i .. Min(i + MAX_CONCURRENT_REQUESTS - 1, nb)

\* a window that waits for its batches without sending them
LaunchWindowNone(id, batches, i, stg) == {}

\* content-script.ts 214-216: concurrentBatches.map(translateBatch)
LaunchWindow(id, batches, i, stg) ==
  {SendBatch(id, k, batches[k], stg) : k \in WindowOf(i, Len(batches))}

\* content-script.ts 175-217 up to the first await: the partition of the
\* uncached units and the first window of requests
ScheduleBatches(st, newNodes, batches, owner, stg) ==
  LET id == st.nInv + 1
      nodes == {newNodes[i].node : i \in 1 .. Len(newNodes)}
      sent == LaunchWindow(id, batches, 1, stg)
  IN [st EXCEPT
        !.tn = @ \cup nodes,
        !.nInv = id,
        !.invs = [k \in DOMAIN @ \cup {id} |->
                    IF k = id
                    THEN [nodes |-> nodes, batches |-> batches, i |-> 1,
                          waiting |-> WindowOf(1, Len(batches)), owner |-> owner]
                    ELSE @[k]],
        !.calls = @ \cup sent,
        !.sent = @ + Cardinality(sent),
        !.hist = [k \in DOMAIN @ \cup {id} |->
                    IF k = id
                    THEN [nb |-> Len(batches),
                          cnt |-> [b \in 1 .. Len(batches) |->
                                     IF b \in WindowOf(1, Len(batches)) THEN 1 ELSE 0],
                          aborted |-> FALSE, owner |-> owner]
                    ELSE @[k]]]

\* content-script.ts 153-173: the cache split and the application of the
\* cached results, guarded by the enabled flag; then the batches.  When
\* nothing is uncached the finally block runs in the same step.
SplitAndSchedule(st, newNodes, gm, owner, en, stg, c) ==
  LET cachedNodes == [k \in 1 .. Len(gm.cached) |-> newNodes[gm.cached[k]]]
      cachedResults == [k \in 1 .. Len(gm.cached) |->
                          [original |-> newNodes[gm.cached[k]].originalText,
                           translated |-> c[CacheKey(newNodes[gm.cached[k]].originalText,
                                                     stg.sourceLang, stg.targetLang)]]]
      st0 == [st EXCEPT !.hits = @ + Len(gm.cached),
                        !.looked = @ \cup {newNodes[i].node : i \in 1 .. Len(newNodes)}]
      Rest(st1) ==
        IF Len(gm.uncached) = 0 THEN st1
        ELSE LET Go(batches) == ScheduleBatches(st1, newNodes, batches, owner, stg)
             IN With(Partition(gm.uncached, newNodes), Go)
  IN With(IF Len(gm.cached) > 0 /\ en
          THEN [applyTranslations(st0, cachedNodes, cachedResults)
                  EXCEPT !.applyCalls = @ + 1]
          ELSE st0, Rest)

\* content-script.ts translateNodesParallel up to its first await: the
\* in-flight filter and the language gate, then the rest for the new nodes
translateNodesParallel(st, textNodes, owner, en, stg, c) ==
  LET Fresh(n) == /\ n.node \notin st.tn
                  /\ isSourceLanguage(n.originalText, stg.sourceLang)
      Texts(newNodes) == [i \in 1 .. Len(newNodes) |-> newNodes[i].originalText]
      Run(newNodes) ==
        IF Len(newNodes) = 0 THEN st
        ELSE LET Go(gm) == SplitAndSchedule(st, newNodes, gm, owner, en, stg, c)
             IN With(getMultiple(c, Texts(newNodes), stg.sourceLang, stg.targetLang), Go)
  IN With(SelectSeq(textNodes, Fresh), Run)

\* ---------------------------------------------------------- mutation watcher
\* content-script.ts observeShadowRoot: one more observer on the root
observeShadowRoot(obs, r, w) == Append(obs, [root |-> <<r.e.id, r.part>>, w |-> w])

RECURSIVE ObserveRoots(_, _, _)
ObserveRoots(obs, roots, w) ==
  IF roots = <<>> THEN obs
  ELSE ObserveRoots(observeShadowRoot(obs, Head(roots), w), Tail(roots), w)

\* content-script.ts observeDomChanges: the old observers are disconnected,
\* a new closure (pendingNodes empty, no timer) is created and installed on
\* the body and on every shadow root found below it
observeDomChanges(st, els) ==
  LET w == st.nW + 1
  IN [st EXCEPT
        !.nW = w,
        !.observer = w,
        !.shadowObservers = ObserveRoots(<<>>, ShadowRootsOf(els), w),
        !.watchers = [k \in {x \in DOMAIN @ : @[x].timer} \cup {w} |->
                        IF k = w THEN [pending |-> <<>>, timer |-> FALSE, arms |-> 0]
                        ELSE @[k]]]

\* ------------------------------------------------------------------ steps
EmptyMap == [k \in {} |-> 0]

\* the state a macrotask starts from
Cur == [tn |-> translatingNodes, shown |-> shown, applied |-> applied, invs |-> invs,
        calls |-> calls, hist |-> hist, nInv |-> nInv, nW |-> nW, observer |-> observer,
        shadowObservers |-> shadowObservers, watchers |-> watchers,
        applyCalls |-> 0, sent |-> 0, hits |-> 0, restored |-> 0, drained |-> 0,
        looked |-> {}, sel |-> NoText]

\* the state a macrotask leaves
Commit(st) ==
  /\ translatingNodes' = st.tn
  /\ shown' = st.shown
  /\ applied' = st.applied
  /\ invs' = st.invs
  /\ calls' = st.calls
  /\ hist' = st.hist
  /\ nInv' = st.nInv
  /\ nW' = st.nW
  /\ observer' = st.observer
  /\ shadowObservers' = st.shadowObservers
  /\ watchers' = st.watchers

Event(op, out, st, noop) ==
  [op |-> op, out |-> out, applyCalls |-> st.applyCalls,
   sent |-> st.sent, hits |-> st.hits, restored |-> st.restored,
   drained |-> st.drained, looked |-> st.looked, sel |-> st.sel, noop |-> noop]

\* content-script.ts enable(), with translateVisibleContent; when the
\* initial pass needs no provider call, observeDomChanges runs in the same
\* macrotask, otherwise when the pass completes (see Settle)
enable(st, els, stg, c) ==
  LET Pass(textNodes) ==
        IF Len(textNodes) = 0 THEN st
        ELSE translateNodesParallel(st, sortByViewport(textNodes), "enable", TRUE, stg, c)
      Then(st1) == IF st1.nInv # st.nInv THEN st1 ELSE observeDomChanges(st1, els)
  IN With(With(ExtractBody(els, st.shown), Pass), Then)

\* enable() without its guard
AlreadyEnabledNever(en) == FALSE

\* content-script.ts 91: if (this.isEnabled) return
AlreadyEnabled(en) == en

Enable ==
  /\ env.ops > 0
  /\ env' = [env EXCEPT !.ops = @ - 1]
  /\ IF AlreadyEnabled(isEnabled)
     THEN /\ ev' = Event("enable", "", Cur, TRUE)
          /\ UNCHANGED agentVars
     ELSE \E st \in {With(Cur, LAMBDA cur : enable(cur, body, settings, cache))} :
             /\ isEnabled' = TRUE
             /\ Commit(st)
             /\ ev' = Event("enable", "", st, FALSE)
             /\ UNCHANGED <<settings, cache, body>>
  /\ UNCHANGED <<pin, pout, selCalls, tooltip, toggles, domainAutoTranslate, started>>

\* disable() without the call of restoreOriginal
disableNoRestore(st) ==
  [st EXCEPT !.observer = 0,
             !.shadowObservers = <<>>,
             !.watchers = [k \in {x \in DOMAIN @ : @[x].timer} |-> @[k]]]

\* content-script.ts disable() after its guard: the observers are
\* disconnected and dropped, the translated units are restored
disable(st) ==
  [st EXCEPT !.observer = 0,
             !.shadowObservers = <<>>,
             !.shown = restoreOriginal(st.shown, st.applied),
             !.applied = EmptyMap,
             !.restored = Cardinality(DOMAIN st.applied),
             !.watchers = [k \in {x \in DOMAIN @ : @[x].timer} |-> @[k]]]

Disable ==
  /\ env.ops > 0
  /\ env' = [env EXCEPT !.ops = @ - 1]
  /\ IF ~isEnabled
     THEN /\ ev' = Event("disable", "", Cur, TRUE)
          /\ UNCHANGED agentVars
     ELSE \E st \in {disable(Cur)} :
             /\ isEnabled' = FALSE
             /\ Commit(st)
             /\ ev' = Event("disable", "", st, FALSE)
             /\ UNCHANGED <<settings, cache, body>>
  /\ UNCHANGED <<pin, pout, selCalls, tooltip, toggles, domainAutoTranslate, started>>

\* a loop that stores the first pair only
StoreResultsFirst(c, results, stg) ==
  IF results = <<>> THEN c
  ELSE cacheSet(c, Head(results).original, Head(results).translated,
                stg.sourceLang, stg.targetLang)

\* translateBatch after its await, for a success response: every returned
\* pair is stored under the current settings and, if the pipeline is
\* enabled, the results are applied to the batch's nodes
RECURSIVE StoreResults(_, _, _)
StoreResults(c, results, stg) ==
  IF results = <<>> THEN c
  ELSE StoreResults(cacheSet(c, Head(results).original, Head(results).translated,
                             stg.sourceLang, stg.targetLang),
                    Tail(results), stg)

\* translateBatch storing the pairs whatever the response says
StoreOutcomeAlways(c, out, results, stg) == StoreResults(c, results, stg)

\* content-script.ts 196-206: only a success response is stored
StoreOutcome(c, out, results, stg) ==
  IF out = "ok" THEN StoreResults(c, results, stg) ELSE c

\* translateBatch applying without looking at the enabled flag
ApplyBatchUnguarded(st, call, results, en) ==
  [applyTranslations(st, [i \in 1 .. Len(call.nodes) |-> [node |-> call.nodes[i]]], results)
     EXCEPT !.applyCalls = @ + 1]

\* content-script.ts 208-210: the application, guarded by the enabled flag
ApplyBatch(st, call, results, en) ==
  IF en
  THEN [applyTranslations(st, [i \in 1 .. Len(call.nodes) |-> [node |-> call.nodes[i]]], results)
          EXCEPT !.applyCalls = @ + 1]
  ELSE st

\* a finally block that leaves the in-flight set as it is
finallyKeep(tn, nodes) == tn

\* content-script.ts 219-221: the finally block of translateNodesParallel
\* takes the invocation's new nodes out of the in-flight set
finally(tn, nodes) == tn \ nodes

\* what follows the settling of one translateBatch promise: a rejection
\* rejects Promise.all at once and runs the finally block; a resolution
\* that empties the window starts the next window or, after the last one,
\* runs the finally block and lets an awaiting enable() go on
Settle(st, call, out, els, stg) ==
  IF call.inv \notin DOMAIN st.invs THEN st
  ELSE
    LET inv == st.invs[call.inv]
        others == [k \in DOMAIN st.invs \ {call.inv} |-> st.invs[k]]
        waiting == inv.waiting \ {call.b}
        i2 == inv.i + MAX_CONCURRENT_REQUESTS
        next == LaunchWindow(call.inv, inv.batches, i2, stg)
    IN IF out = "reject"
       THEN [st EXCEPT !.tn = finally(@, inv.nodes), !.invs = others,
                       !.hist[call.inv].aborted = TRUE]
       ELSE IF waiting # {}
       THEN [st EXCEPT !.invs[call.inv].waiting = waiting]
       ELSE IF i2 <= Len(inv.batches)
       THEN [st EXCEPT !.invs[call.inv].waiting = WindowOf(i2, Len(inv.batches)),
                       !.invs[call.inv].i = i2,
                       !.calls = @ \cup next,
                       !.sent = @ + Cardinality(next),
                       !.hist[call.inv].cnt =
                          [b \in DOMAIN @ |->
                             IF b \in WindowOf(i2, Len(inv.batches)) THEN @[b] + 1 ELSE @[b]]]
       ELSE LET fin == [st EXCEPT !.tn = finally(@, inv.nodes), !.invs = others]
            IN IF inv.owner = "enable" THEN observeDomChanges(fin, els) ELSE fin

\* content-script.ts 43-47: what follows toggle() in the message handler.
\* A toggle that awaits the enable() of invocation inv goes on when that
\* invocation completes: setDomainAutoTranslate is called with the enabled
\* flag of that moment; when the invocation is rejected, toggle() rejects
\* and the callback given to then() never runs
ResumeToggles(tg, inv, wasRunning, isRunning, out, en) ==
  [t \in 1 .. Len(tg) |->
     IF tg[t].phase = "enabling" /\ tg[t].inv = inv /\ wasRunning /\ ~isRunning
     THEN IF out = "reject" THEN [tg[t] EXCEPT !.phase = "dropped"]
          ELSE [tg[t] EXCEPT !.phase = "writing", !.wrote = en]
     ELSE tg[t]]

\* a notification that arms a timer whether or not one is armed
armTimerAlways(wt) ==
  IF Len(wt.pending) > 0 THEN [wt EXCEPT !.timer = TRUE, !.arms = @ + 1] ELSE wt

\* content-script.ts 258-259: setTimeout only when something is pending and
\* no timer is armed; arms counts the timers set and not yet expired
armTimer(wt) ==
  IF Len(wt.pending) > 0 /\ ~wt.timer
  THEN [wt EXCEPT !.timer = TRUE, !.arms = @ + 1]
  ELSE wt

\* content-script.ts handleMutations for one added element
handleMutations(st, e, en) ==
  LET w == st.observer
      roots == ShadowRootsOf(<<e>>)
      pending == st.watchers[w].pending \o <<[e |-> e, part |-> "el"]>> \o roots
  IN IF ~en THEN st
     ELSE [st EXCEPT !.shadowObservers = ObserveRoots(@, roots, w),
                     !.watchers[w] = armTimer([@ EXCEPT !.pending = pending])]

\* content-script.ts 307-324: the tooltip after createTooltip
HiddenTooltip == [display |-> "none", kind |-> "", node |-> 0, inView |-> FALSE]

\* content-script.ts 324: the tooltip div is appended to the body; the root
\* observer, when there is one, reports the insertion
createTooltip(st, en) ==
  IF st.observer # 0 THEN handleMutations(st, TipElem, en) ELSE st

\* a provider request settles: success response, failure response or
\* rejected call; a success response carries the endpoint's data for a
\* complete or an incomplete provider answer.  When init() awaits the
\* pass of its enable() (content-script.ts 33) and the pass completes,
\* init() goes on: the listeners are registered and the tooltip is
\* created; when the pass is rejected, init() rejects and stops there
Response(call, out, got) ==
  LET st0 == [Cur EXCEPT !.calls = @ \ {call}]
      fault == out # "ok" \/ got # "all"
  IN /\ call \in calls
     /\ got # "all" => out = "ok"
     /\ fault => env.faults > 0
     /\ env' = [env EXCEPT !.faults = IF fault THEN @ - 1 ELSE @]
     /\ \E results \in {ResponseData(call.texts, call.tgt, got)} :
        \E st1 \in {IF out = "ok" THEN ApplyBatch(st0, call, results, isEnabled) ELSE st0} :
        \E st2 \in {Settle(st1, call, out, body, settings)} :
        \E goesOn \in {started = "enabling" /\ out # "reject"
                          /\ call.inv \in DOMAIN invs /\ call.inv \notin DOMAIN st2.invs} :
        \E st3 \in {IF goesOn THEN createTooltip(st2, isEnabled) ELSE st2} :
          /\ cache' = StoreOutcome(cache, out, results, settings)
          /\ Commit(st3)
          /\ ev' = Event("response", out, st3, FALSE)
          /\ toggles' = ResumeToggles(toggles, call.inv, call.inv \in DOMAIN invs,
                                      call.inv \in DOMAIN st2.invs, out, isEnabled)
          /\ started' = IF goesOn THEN "ready"
                         ELSE IF started = "enabling" /\ call.inv \notin DOMAIN st2.invs
                         THEN "failed" ELSE started
          /\ body' = IF goesOn THEN Append(body, TipElem) ELSE body
          /\ tooltip' = IF goesOn THEN HiddenTooltip ELSE tooltip
     /\ UNCHANGED <<isEnabled, settings, pin, pout, selCalls, domainAutoTranslate>>

\* a page script attaches (or moves) an element to the end of the body; the
\* root observer, when there is one, reports it
Mutation(e) ==
  LET NotE(x) == x # e
  IN /\ env.ops > 0
     /\ e \in env.addable
     /\ env' = [env EXCEPT !.ops = @ - 1]
     /\ body' = Append(SelectSeq(body, NotE), e)
     /\ \E st \in {IF observer # 0 THEN handleMutations(Cur, e, isEnabled) ELSE Cur} :
          /\ Commit(st)
          /\ ev' = Event("mutation", "", st, observer = 0 \/ ~isEnabled)
     /\ UNCHANGED <<isEnabled, settings, cache, pin, pout, selCalls, tooltip, toggles, domainAutoTranslate, started>>

\* content-script.ts 259-270: the debounce timer's callback
RECURSIVE Flush(_, _, _, _, _)
Flush(st, nodes, en, stg, c) ==
  IF nodes = <<>> THEN st
  ELSE LET One(textNodes) ==
             IF Len(textNodes) > 0
             THEN translateNodesParallel(st, textNodes, "flush", en, stg, c)
             ELSE st
           Rest(st1) == Flush(st1, Tail(nodes), en, stg, c)
       IN With(With(extractTextNodes(Head(nodes), st.shown), One), Rest)

TimerFire(w) ==
  LET cleared == [k \in {x \in DOMAIN watchers : x # w \/ x = observer} |->
                    IF k = w
                    THEN [pending |-> <<>>, timer |-> FALSE, arms |-> watchers[w].arms - 1]
                    ELSE watchers[k]]
      elements == {i \in 1 .. Len(watchers[w].pending) : watchers[w].pending[i].part = "el"}
  IN /\ w \in DOMAIN watchers
     /\ watchers[w].timer
     /\ \E st \in {Flush([Cur EXCEPT !.watchers = cleared,
                                      !.drained = Cardinality(elements)],
                          watchers[w].pending,
                          isEnabled, settings, cache)} :
          /\ Commit(st)
          /\ ev' = Event("flush", "", st, FALSE)
     /\ UNCHANGED <<isEnabled, settings, cache, body, env, pin, pout, selCalls, tooltip, toggles, domainAutoTranslate, started>>

\* content-script.ts 109-115 and 43-45: a TOGGLE_TRANSLATION message.
\* toggle() calls disable() or enable(); when it need not wait for a
\* provider call, the callback given to then() runs in the same macrotask
\* and calls setDomainAutoTranslate with the enabled flag
Toggle ==
  /\ started = "ready"
  /\ env.ops > 0
  /\ env' = [env EXCEPT !.ops = @ - 1]
  /\ \E st \in {IF isEnabled THEN disable(Cur)
                 ELSE With(Cur, LAMBDA cur : enable(cur, body, settings, cache))} :
       /\ isEnabled' = ~isEnabled
       /\ Commit(st)
       /\ ev' = Event("toggle", "", st, FALSE)
       /\ toggles' = Append(toggles,
                        IF ~isEnabled /\ st.nInv # nInv
                        THEN [phase |-> "enabling", inv |-> st.nInv,
                              wrote |-> FALSE, reported |-> FALSE]
                        ELSE [phase |-> "writing", inv |-> 0,
                              wrote |-> ~isEnabled, reported |-> FALSE])
  /\ UNCHANGED <<settings, cache, body, pin, pout, selCalls, tooltip, domainAutoTranslate, started>>

\* content-script.ts 45-46: the write of the flag completes and the message
\* is answered with the enabled flag of this moment
StorageSettle(t) ==
  /\ t \in 1 .. Len(toggles)
  /\ toggles[t].phase = "writing"
  /\ domainAutoTranslate' = toggles[t].wrote
  /\ toggles' = [toggles EXCEPT ![t] = [@ EXCEPT !.phase = "answered", !.reported = isEnabled]]
  /\ ev' = Event("answer", "", Cur, FALSE)
  /\ UNCHANGED <<agentVars, env, pin, pout, selCalls, tooltip, started>>

\* content-script.ts 80-88: a change notification of the stored settings
\* replaces the language pair
ChangeSettings(src, tgt) ==
  /\ started = "ready"
  /\ env.ops > 0
  /\ env' = [env EXCEPT !.ops = @ - 1]
  /\ settings' = [sourceLang |-> src, targetLang |-> tgt]
  /\ ev' = Event("settings", "", Cur, FALSE)
  /\ UNCHANGED <<isEnabled, observer, shadowObservers, translatingNodes, cache, body, shown,
                 applied, invs, calls, watchers, nInv, nW, hist, pin, pout, selCalls,
                 tooltip, toggles, domainAutoTranslate, started>>

\* a selection request that carries no text
SelectionRequestEmpty(text, stg) ==
  [texts |-> <<>>, src |-> stg.sourceLang, tgt |-> stg.targetLang]

\* content-script.ts 374-381: the request of translateSelection
SelectionRequest(text, stg) ==
  [texts |-> <<text>>, src |-> stg.sourceLang, tgt |-> stg.targetLang]

\* content-script.ts 333-362 showTooltip: the tooltip is placed below or
\* above the selection range, which may put it outside the window (inView),
\* or in the corner when there is no range; textContent replaces the
\* tooltip's text node with a new one holding the text, and the tooltip is
\* displayed
showTooltip(tip, sh, kind, text, inView) ==
  LET n == tip.node + 1
  IN [tooltip |-> [display |-> "block", kind |-> kind, node |-> n, inView |-> inView],
      shown |-> [u \in DOMAIN sh \cup {-n} |-> IF u = -n THEN text ELSE sh[u]]]

\* content-script.ts 60-66 and 370-381: a TRANSLATE_SELECTION message with
\* a non-empty text; translateSelection up to its await
Select(text, inView) ==
  /\ started = "ready"
  /\ env.ops > 0
  /\ TextLength(text) > 0
  /\ env' = [env EXCEPT !.ops = @ - 1]
  /\ \E r \in {showTooltip(tooltip, shown, "translating", TranslatingText, inView)} :
       /\ tooltip' = r.tooltip
       /\ shown' = r.shown
  /\ selCalls' = Append(selCalls, SelectionRequest(text, settings))
  /\ ev' = Event("select", "", [Cur EXCEPT !.sel = text], FALSE)
  /\ UNCHANGED <<isEnabled, observer, shadowObservers, settings, translatingNodes, cache,
                 body, applied, invs, calls, watchers, nInv, nW, hist,
                 pin, pout, toggles, domainAutoTranslate, started>>

\* content-script.ts 383-390: translateSelection after its await
SelectionResponse(i, out, got, inView) ==
  LET call == selCalls[i]
      data == ResponseData(call.texts, call.tgt, got)
      fault == out # "ok" \/ got # "all"
  IN /\ i \in 1 .. Len(selCalls)
     /\ got # "all" => out = "ok"
     /\ fault => env.faults > 0
     /\ env' = [env EXCEPT !.faults = IF fault THEN @ - 1 ELSE @]
     /\ selCalls' = SubSeq(selCalls, 1, i - 1) \o SubSeq(selCalls, i + 1, Len(selCalls))
     /\ \E r \in {IF out = "reject" THEN showTooltip(tooltip, shown, "error", ErrorText, inView)
                   ELSE IF out = "ok" /\ Len(data) > 0
                   THEN showTooltip(tooltip, shown, "result", data[1].translated, inView)
                   ELSE showTooltip(tooltip, shown, "failed", FailedText, inView)} :
          /\ tooltip' = r.tooltip
          /\ shown' = r.shown
     /\ ev' = Event("selection", out, Cur, FALSE)
     /\ UNCHANGED <<isEnabled, observer, shadowObservers, settings, translatingNodes, cache,
                    body, applied, invs, calls, watchers, nInv, nW, hist,
                    pin, pout, toggles, domainAutoTranslate, started>>

\* content-script.ts 364-368
hideTooltip(tip) == [tip EXCEPT !.display = "none"]

\* content-script.ts 326-330: a click in the document hides the tooltip,
\* unless the click is inside the tooltip
Click(inside) ==
  /\ started = "ready"
  /\ env.ops > 0
  /\ inside => tooltip.display = "block"
  /\ env' = [env EXCEPT !.ops = @ - 1]
  /\ tooltip' = IF inside THEN tooltip ELSE hideTooltip(tooltip)
  /\ ev' = Event("click", "", Cur, inside)
  /\ UNCHANGED <<agentVars, pin, pout, selCalls, toggles, domainAutoTranslate, started>>

\* the language pairs the stored settings may hold
StoredSettings ==
  {[sourceLang |-> "en", targetLang |-> "ko"], [sourceLang |-> "ko", targetLang |-> "en"]}

\* content-script.ts 24-28 init() up to its second await: the stored
\* language pair has been read and assigned
LoadSettings(stored) ==
  /\ started = "no"
  /\ started' = "settings"
  /\ settings' = stored
  /\ ev' = Event("load", "", Cur, FALSE)
  /\ UNCHANGED <<isEnabled, observer, shadowObservers, translatingNodes, cache, body, shown,
                 applied, invs, calls, watchers, nInv, nW, hist, env, pin, pout, selCalls,
                 tooltip, toggles, domainAutoTranslate>>

\* content-script.ts 30-38 init() after the stored flag of the domain has
\* been read: with the flag set, enable() is awaited (it returns at once on
\* an enabled pipeline, line 91); then the message and storage listeners
\* are registered and the tooltip is created.  When the initial pass needs
\* a provider call, init() goes on when the pass completes (see Response)
Startup ==
  /\ started = "settings"
  /\ IF domainAutoTranslate /\ ~AlreadyEnabled(isEnabled)
     THEN /\ isEnabled' = TRUE
          /\ \E st \in {With(Cur, LAMBDA cur : enable(cur, body, settings, cache))} :
               IF st.nInv # nInv
               THEN /\ Commit(st)
                    /\ ev' = Event("startup", "", st, FALSE)
                    /\ started' = "enabling"
                    /\ UNCHANGED <<body, tooltip>>
               ELSE \E st1 \in {createTooltip(st, TRUE)} :
                      /\ Commit(st1)
                      /\ ev' = Event("startup", "", st1, FALSE)
                      /\ started' = "ready"
                      /\ body' = Append(body, TipElem)
                      /\ tooltip' = HiddenTooltip
     ELSE \E st \in {createTooltip(Cur, isEnabled)} :
            /\ Commit(st)
            /\ started' = "ready"
            /\ body' = Append(body, TipElem)
            /\ tooltip' = HiddenTooltip
            /\ ev' = Event("startup", "", st, FALSE)
            /\ UNCHANGED isEnabled
  /\ UNCHANGED <<settings, cache, env, pin, pout, selCalls, toggles, domainAutoTranslate>>

\* popup 76-80 PopupController.toggleDomainAutoTranslate up to its second
\* await: the checkbox's value is written as the stored flag of the
\* domain; the TOGGLE_TRANSLATION message it sends afterwards (82-85) is
\* received by the page agent as any other (see Toggle), or by nobody
toggleDomainAutoTranslate(newValue) ==
  /\ env.ops > 0
  /\ env' = [env EXCEPT !.ops = @ - 1]
  /\ domainAutoTranslate' = newValue
  /\ ev' = Event("popup", "", Cur, FALSE)
  /\ UNCHANGED <<agentVars, pin, pout, selCalls, tooltip, toggles, started>>

\* popup 102-120 PopupController.togglePageTranslation when its try block
\* throws (no active tab, tabs.query rejects, no listener in the page, the
\* page agent never answers and the port closes): the catch block writes
\* the negated checkbox value as the stored flag, whatever the page agent
\* is doing.  When the message is delivered and answered, the popup writes
\* nothing and the page agent's part is Toggle
togglePageTranslation(newValue) ==
  /\ env.ops > 0
  /\ env' = [env EXCEPT !.ops = @ - 1]
  /\ domainAutoTranslate' = newValue
  /\ ev' = Event("popup", "reject", Cur, FALSE)
  /\ UNCHANGED <<agentVars, pin, pout, selCalls, tooltip, toggles, started>>

\* ------------------------------------------------------------ specification
\* the state in which init() has completed for a domain whose stored flag
\* is not set, with the stored language pair en > ko: the listeners are
\* registered and the hidden tooltip is the last element of the body
InitWith(els, addable, nOps, nFaults) ==
  /\ isEnabled = FALSE
  /\ observer = 0
  /\ shadowObservers = <<>>
  /\ settings = [sourceLang |-> "en", targetLang |-> "ko"]
  /\ translatingNodes = {}
  /\ cache = EmptyMap
  /\ body = els \o <<TipElem>>
  /\ shown = [u \in UnitsOf(Range(els) \cup addable) |-> UnitOrig(u)]
  /\ applied = EmptyMap
  /\ invs = EmptyMap
  /\ calls = {}
  /\ watchers = EmptyMap
  /\ nInv = 0
  /\ nW = 0
  /\ hist = EmptyMap
  /\ env = [ops |-> nOps, faults |-> nFaults, addable |-> addable]
  /\ ev = Event("init", "", [applyCalls |-> 0, sent |-> 0, hits |-> 0, restored |-> 0,
                             drained |-> 0, looked |-> {}, sel |-> NoText], FALSE)
  /\ selCalls = <<>>
  /\ tooltip = HiddenTooltip
  /\ toggles = <<>>
  /\ domainAutoTranslate = FALSE
  /\ started = "ready"

\* the state after construction (content-script.ts 9-18), before init()
\* has read the storage: no listener is registered and there is no tooltip;
\* the stored flag of the domain is what an earlier visit left
InitBoot(els, addable, nOps, nFaults) ==
  /\ isEnabled = FALSE
  /\ observer = 0
  /\ shadowObservers = <<>>
  /\ settings = [sourceLang |-> "en", targetLang |-> "ko"]
  /\ translatingNodes = {}
  /\ cache = EmptyMap
  /\ body = els
  /\ shown = [u \in UnitsOf(Range(els) \cup addable) |-> UnitOrig(u)]
  /\ applied = EmptyMap
  /\ invs = EmptyMap
  /\ calls = {}
  /\ watchers = EmptyMap
  /\ nInv = 0
  /\ nW = 0
  /\ hist = EmptyMap
  /\ env = [ops |-> nOps, faults |-> nFaults, addable |-> addable]
  /\ ev = Event("init", "", [applyCalls |-> 0, sent |-> 0, hits |-> 0, restored |-> 0,
                             drained |-> 0, looked |-> {}, sel |-> NoText], FALSE)
  /\ selCalls = <<>>
  /\ tooltip = [display |-> "absent", kind |-> "", node |-> 0, inView |-> FALSE]
  /\ toggles = <<>>
  /\ domainAutoTranslate \in BOOLEAN
  /\ started = "no"

\* the input and the output of the partition on its own; unused elsewhere
NoOut == [done |-> FALSE, uncached |-> <<>>, batches |-> <<>>]
NoPure == pin = [n |-> 0, m |-> 1, r |-> 1] /\ pout = NoOut

\* a page with one element of NMain units; scripts add a card and a widget
Init == InitWith(<<MainElem>>, {CardElem, WidgetElem}, MaxOps, MaxFaults) /\ NoPure

Settles ==
  \E call \in calls : \E out \in {"ok", "fail", "reject"} : \E got \in ProviderAnswers :
    Response(call, out, got)
Mutates == \E e \in env.addable : Mutation(e)
Fires == \E w \in DOMAIN watchers : TimerFire(w)

Next == Enable \/ Disable \/ Settles \/ Mutates \/ Fires

Spec == Init /\ [][Next]_vars

\* the scheduling scenarios: the pipeline is enabled and stays enabled
NextSched == Enable \/ Settles \/ Mutates \/ Fires

\* a page whose body holds NBig text units from the start
InitSched == InitWith(<<BigElem>>, {CardElem}, SchedOps, MaxFaults) /\ NoPure

SpecSched == InitSched /\ [][NextSched]_vars

\* the page with one element, to which scripts add the card, when every
\* provider call settles
InitLive == InitWith(<<MainElem>>, {CardElem}, LiveOps, MaxFaults) /\ NoPure

SpecLive == InitLive /\ [][Next]_vars /\ WF_vars(Settles)

\* an empty page to which scripts add the large element and the card; every
\* provider call succeeds
InitFlush == InitWith(<<>>, {BigElem, CardElem}, FlushOps, 0) /\ NoPure

SpecFlush == InitFlush /\ [][NextSched]_vars

\* the end-to-end scenario: two eligible texts and one in a disallowed tag;
\* the pipeline is turned on and off and a script adds the card
InitScenario == InitWith(<<HelloElem>>, {CardElem}, MaxOps, MaxFaults) /\ NoPure

SpecScenario == InitScenario /\ [][Next]_vars

\* the settings scenario: the user changes the language pair in the popup
\* while the pipeline works on the page
SettingsChanges ==
  \E src \in {"en", "ko"} : \E tgt \in {"ko", "ja"} : ChangeSettings(src, tgt)

NextSettings == Enable \/ Disable \/ Settles \/ SettingsChanges

InitSettings == InitWith(<<HelloElem>>, {}, SetOps, MaxFaults) /\ NoPure

SpecSettings == InitSettings /\ [][NextSettings]_vars

\* the toggle scenario: a page with text loads, with the stored flag of its
\* domain set or not, and the popup toggles the pipeline
Toggles == Toggle
StorageSettles == \E t \in 1 .. Len(toggles) : StorageSettle(t)

Startups == (\E stored \in StoredSettings : LoadSettings(stored)) \/ Startup

\* the user ticks or clears the checkbox of the popup, or presses its button
PopupWrites ==
  \E newValue \in BOOLEAN :
    toggleDomainAutoTranslate(newValue) \/ togglePageTranslation(newValue)

NextToggle == Startups \/ PopupWrites \/ Toggles \/ Settles \/ StorageSettles \/ Fires

InitToggle == InitBoot(<<MainElem>>, {}, ToggleOps, MaxFaults) /\ NoPure

SpecToggle == InitToggle /\ [][NextToggle]_vars

\* every provider call and every storage write settles
SpecToggleFair == SpecToggle /\ WF_vars(Settles) /\ WF_vars(StorageSettles)

\* ------------------------------------------------ the background coordinator
\* a response of shape {success, data?, error?}
TranslationResponse(success, hasData, n, hasError) ==
  [success |-> success, hasData |-> hasData, n |-> n, hasError |-> hasError]

\* a client error reported as an empty success
ClientFailureAsSuccess(error) == TranslationResponse(TRUE, TRUE, 0, FALSE)

\* service-worker.ts 68-73: the catch block of handleTranslate
ClientFailure(error) == TranslationResponse(FALSE, FALSE, 0, TRUE)

\* service-worker.ts 58-74: the promise of handleTranslate; reading the
\* texts of a missing payload throws
handleTranslate(payload, client) ==
  IF ~payload.has THEN [kind |-> "reject"]
  ELSE IF ~payload.hasTexts \/ payload.n = 0
  THEN [kind |-> "resolve", value |-> TranslationResponse(TRUE, TRUE, 0, FALSE), clientCalls |-> 0]
  ELSE IF client = "ok"
  THEN [kind |-> "resolve", value |-> TranslationResponse(TRUE, TRUE, payload.n, FALSE),
        clientCalls |-> 1]
  ELSE [kind |-> "resolve", value |-> ClientFailure(client), clientCalls |-> 1]

\* service-worker.ts 35-56, for the message types of the translation path
handleMessage(message, client) ==
  IF message.type = "TRANSLATE_TEXT" THEN handleTranslate(message.payload, client)
  ELSE [kind |-> "reject"]

\* service-worker.ts 16-33: the responses the listener sends
onMessage(message, client) ==
  LET p == handleMessage(message, client)
  IN IF p.kind = "resolve" THEN <<p.value>>
     ELSE <<TranslationResponse(FALSE, FALSE, 0, TRUE)>>

\* requests with and without a payload, with no texts, an empty list and up
\* to WorkerTexts texts; the client translates or raises one of its errors
WorkerInputs ==
  [message : [type : {"TRANSLATE_TEXT", "OTHER"},
              payload : [has : BOOLEAN, hasTexts : BOOLEAN, n : 0 .. WorkerTexts]],
   client : {"ok", "no_credentials", "http_error", "malformed", "not_an_error"}]

InitWorker ==
  /\ InitWith(<<>>, {}, 0, 0)
  /\ pin \in WorkerInputs
  /\ pout = [done |-> FALSE, responses |-> <<>>]

\* the background coordinator receives the message
WorkerStep ==
  /\ ~pout.done
  /\ pout' = [done |-> TRUE, responses |-> onMessage(pin.message, pin.client)]
  /\ UNCHANGED <<agentVars, env, ev, pin, selCalls, tooltip, toggles, domainAutoTranslate, started>>

SpecWorker == InitWorker /\ [][WorkerStep]_vars

\* ------------------------------------------------- the translation endpoint
\* api/translate.ts 117: the largest accepted number of texts
ApiMaxTexts == 50

\* a limit check that accepts every list
TooManyTextsNever(n) == FALSE

\* api/translate.ts 117: texts.length > 50
TooManyTexts(n) == n > ApiMaxTexts

\* api/translate.ts 110: !Array.isArray(texts) || texts.length === 0
TextsMissing(texts) == ~texts.isArray \/ texts.n = 0

\* api/translate.ts 124: !sourceLang || !targetLang
LangMissing(req) == ~req.sourceLang \/ ~req.targetLang

\* what the handler sends: a status, a JSON body or none, its success and
\* error fields, and what it did on the way: calls of translateWithDeepSeek
\* and requests sent to the provider's URL
Reply(status, json, success, error, n, providerCalls, fetches) ==
  [done |-> TRUE, status |-> status, json |-> json, success |-> success,
   error |-> error, data |-> n, providerCalls |-> providerCalls, fetches |-> fetches]

\* api/translate.ts 40-93: without a key it throws before the request; a
\* response that is not ok or has no content throws after it
translateWithDeepSeek(n, hasKey, provider) ==
  IF ~hasKey THEN [threw |-> TRUE, fetches |-> 0]
  ELSE IF provider # "ok" THEN [threw |-> TRUE, fetches |-> 1]
  ELSE [threw |-> FALSE, fetches |-> 1]

\* api/translate.ts 95-149
handler(req) ==
  IF req.method = "OPTIONS" THEN Reply(200, FALSE, FALSE, FALSE, 0, 0, 0)
  ELSE IF req.method # "POST" THEN Reply(405, TRUE, FALSE, TRUE, 0, 0, 0)
  ELSE IF ~req.hasBody THEN Reply(500, TRUE, FALSE, TRUE, 0, 0, 0)
  ELSE IF TextsMissing(req.texts) THEN Reply(400, TRUE, FALSE, TRUE, 0, 0, 0)
  ELSE IF TooManyTexts(req.texts.n) THEN Reply(400, TRUE, FALSE, TRUE, 0, 0, 0)
  ELSE IF LangMissing(req) THEN Reply(400, TRUE, FALSE, TRUE, 0, 0, 0)
  ELSE LET r == translateWithDeepSeek(req.texts.n, req.hasKey, req.provider)
       IN IF r.threw THEN Reply(500, TRUE, FALSE, TRUE, 0, 1, r.fetches)
          ELSE Reply(200, TRUE, TRUE, FALSE, req.texts.n, 1, r.fetches)

\* requests: a body or none, texts a list or a string of n items, each
\* language code present or not, the key configured or not, and what the
\* provider answers
ApiInputs ==
  [method : {"POST", "GET", "OPTIONS"}, hasBody : BOOLEAN,
   texts : [isArray : BOOLEAN, n : 0 .. ApiLen],
   sourceLang : BOOLEAN, targetLang : BOOLEAN, hasKey : BOOLEAN,
   provider : {"ok", "http_error", "empty"}]

InitApi ==
  /\ InitWith(<<>>, {}, 0, 0)
  /\ pin \in ApiInputs
  /\ pout = [done |-> FALSE]

\* the endpoint handles the request
HandleStep ==
  /\ ~pout.done
  /\ pout' = handler(pin)
  /\ UNCHANGED <<agentVars, env, ev, pin, selCalls, tooltip, toggles, domainAutoTranslate, started>>

SpecApi == InitApi /\ [][HandleStep]_vars

\* sequences over S of lengths lo .. hi
SeqsOf(S, lo, hi) == UNION {[1 .. n -> S] : n \in lo .. hi}

\* valid lists of texts and provider outputs with fewer, as many and more
\* translations, some of them empty, or with no translations field
MapInputs ==
  [texts : SeqsOf({UnitOrig(1), UnitOrig(2)}, 1, MapLen),
   parsed : [has : BOOLEAN,
             translations : SeqsOf({NoText, ProviderTranslate(UnitOrig(1), "ko"),
                                    ProviderTranslate(UnitOrig(2), "ko")}, 0, MapLen + 1)]]

InitMap ==
  /\ InitWith(<<>>, {}, 0, 0)
  /\ pin \in MapInputs
  /\ pout = [done |-> FALSE, data |-> <<>>]

\* api/translate.ts 131-141: the success path of the handler
MapStep ==
  /\ ~pout.done
  /\ pout' = [done |-> TRUE, data |-> ResultMapping(pin.texts, ParsedTranslations(pin.parsed))]
  /\ UNCHANGED <<agentVars, env, ev, pin, selCalls, tooltip, toggles, domainAutoTranslate, started>>

SpecMap == InitMap /\ [][MapStep]_vars

\* the selection scenario: the page loads, the user selects a sentence of
\* the page or a sentence that is not a text unit, clicks, toggles the
\* pipeline and changes the language pair
SelTexts == {UnitOrig(1), MkText(0, 4, 0, 0, 0, 0, 0)}

Selects == \E text \in SelTexts : \E inView \in BOOLEAN : Select(text, inView)
SelectionSettles ==
  \E i \in 1 .. Len(selCalls) : \E out \in {"ok", "fail", "reject"} :
    \E got \in ProviderAnswers : \E inView \in BOOLEAN : SelectionResponse(i, out, got, inView)

Clicks == \E inside \in BOOLEAN : Click(inside)

NextSelect ==
  \/ Startups \/ Toggles \/ StorageSettles \/ SettingsChanges \/ Settles \/ Fires
  \/ Selects \/ SelectionSettles \/ Clicks

InitSelect == InitBoot(<<MainElem>>, {}, SelOps, MaxFaults) /\ NoPure

SpecSelect == InitSelect /\ [][NextSelect]_vars

\* the batch partition on its own: n new nodes of which those at the
\* indices i with i % m = r are cache hits
PartInputs == {[n |-> n, m |-> m, r |-> r] : n \in 0 .. NPart, m \in 1 .. 3, r \in 0 .. 3}

PartNodes(n) == [i \in 1 .. n |-> [node |-> i, originalText |-> UnitOrig(i)]]

PartCache(in, stg) ==
  LET hits == {i \in 1 .. in.n : i % in.m = in.r}
  IN [k \in {CacheKey(UnitOrig(i), stg.sourceLang, stg.targetLang) : i \in hits} |->
        ProviderTranslate(k[1], stg.targetLang)]

InitPart ==
  /\ InitWith(<<>>, {}, 0, 0)
  /\ pin \in {in \in PartInputs : in.r <= in.m}
  /\ pout = NoOut

\* content-script.ts 153-182 applied to the input: cache split, partition
PartitionStep ==
  /\ ~pout.done
  /\ \E gm \in {getMultiple(PartCache(pin, settings),
                              [i \in 1 .. pin.n |-> UnitOrig(i)],
                              settings.sourceLang, settings.targetLang)} :
       pout' = [done |-> TRUE, uncached |-> gm.uncached,
                batches |-> Partition(gm.uncached, PartNodes(pin.n))]
  /\ UNCHANGED <<agentVars, env, ev, pin, selCalls, tooltip, toggles, domainAutoTranslate, started>>

SpecPart == InitPart /\ [][PartitionStep]_vars

\* the classifier on its own: a text with up to MaxChars characters of each
\* class it counts
LangInputs ==
  {MkText(0, a, x, h, j, c, o) : a \in 0 .. MaxChars, x \in 0 .. 1, h \in 0 .. MaxChars,
                                 j \in 0 .. MaxChars, c \in 0 .. MaxChars, o \in 0 .. 1}

InitLang ==
  /\ InitWith(<<>>, {}, 0, 0)
  /\ pin \in LangInputs
  /\ pout = [done |-> FALSE, label |-> ""]

\* text-extractor.ts detectLanguage applied to the input
DetectStep ==
  /\ ~pout.done
  /\ pout' = [done |-> TRUE, label |-> detectLanguage(pin)]
  /\ UNCHANGED <<agentVars, env, ev, pin, selCalls, tooltip, toggles, domainAutoTranslate, started>>

SpecLang == InitLang /\ [][DetectStep]_vars

\* the language gate on its own: the label of a text and, for every
\* configured source language, whether the text is accepted
InitGate ==
  /\ InitWith(<<>>, {}, 0, 0)
  /\ pin \in LangInputs
  /\ pout = [done |-> FALSE, label |-> "", accepts |-> [s \in LanguageCode |-> FALSE]]

GateStep ==
  /\ ~pout.done
  /\ pout' = [done |-> TRUE, label |-> detectLanguage(pin),
              accepts |-> [s \in LanguageCode |-> isSourceLanguage(pin, s)]]
  /\ UNCHANGED <<agentVars, env, ev, pin, selCalls, tooltip, toggles, domainAutoTranslate, started>>

SpecGate == InitGate /\ [][GateStep]_vars

\* the viewport sort on its own: a list of up to MaxSortLen different units
\* out of 1 .. NSort, in any order
SortInputs ==
  LET lists == UNION {[1 .. n -> 1 .. NSort] : n \in 0 .. MaxSortLen}
      Distinct(l) == \A i, j \in 1 .. Len(l) : i # j => l[i] # l[j]
  IN {[i \in 1 .. Len(l) |-> [node |-> l[i], originalText |-> UnitOrig(l[i])]] :
        l \in {x \in lists : Distinct(x)}}

InitSort ==
  /\ InitWith(<<>>, {}, 0, 0)
  /\ pin \in SortInputs
  /\ pout = [done |-> FALSE, sorted |-> <<>>, input |-> <<>>]

\* content-script.ts sortByViewport applied to the input: the sort works on
\* a copy ([...nodes]), the caller's list stays as it was
SortStep ==
  /\ ~pout.done
  /\ pout' = [done |-> TRUE, sorted |-> sortByViewport(pin), input |-> pin]
  /\ UNCHANGED <<agentVars, env, ev, pin, selCalls, tooltip, toggles, domainAutoTranslate, started>>

SpecSort == InitSort /\ [][SortStep]_vars

\* the extractor on its own: an added element with two text nodes in its
\* light DOM, the widget's text in its own shadow root and one text node in
\* the shadow root of a descendant
ExtractInputs ==
  {MkElem("probe", <<u1, u2>>, TRUE, <<WidgetOwnUnit>>, TRUE, <<u3>>) :
     u1 \in FilterUnits, u2 \in FilterUnits, u3 \in FilterUnits}

InitExtract ==
  \E e \in {x \in ExtractInputs : Cardinality(UnitsOf({x})) = 4} :
    /\ InitWith(<<>>, {e}, 0, 0)
    /\ pin = e
    /\ pout = [done |-> FALSE, fromElement |-> <<>>, fromBody |-> <<>>]

\* text-extractor.ts extractTextNodes applied to the element and to a body
\* that contains the element
ExtractStep ==
  /\ ~pout.done
  /\ pout' = [done |-> TRUE,
               fromElement |-> extractTextNodes([e |-> pin, part |-> "el"], shown),
               fromBody |-> ExtractBody(<<pin>>, shown)]
  /\ UNCHANGED <<agentVars, env, ev, pin, selCalls, tooltip, toggles, domainAutoTranslate, started>>

SpecExtract == InitExtract /\ [][ExtractStep]_vars

\* ------------------------------------------------------------------ claims
\* the provider requests of invocation id that are outstanding
CallsOf(id) == {c \in calls : c.inv = id}

\* C1: the Document Applier is not invoked in a step that leaves the
\* pipeline disabled: such a step (a batch response, a flush with cache
\* hits, a mutation, disable() itself) changes a unit's text only by
\* putting its original back.
C1_NoApplyWhileDisabled ==
  [][~isEnabled' =>
       /\ ev'.applyCalls = 0
       /\ \A u \in DOMAIN shown : shown'[u] = shown[u] \/ shown'[u] = UnitOrig(u)]_vars

\* a success response of a batch is processed while the pipeline is disabled
C1_Witness ==
  /\ ev.op = "response" /\ ev.out = "ok"
  /\ ~isEnabled
  /\ ev.applyCalls = 0

\* C2: while the pipeline is disabled every unit displays its original
\* text, from the return of disable() on and whatever responses arrive.
C2_OriginalWhileDisabled ==
  ~isEnabled => \A u \in DOMAIN shown : shown[u] = UnitOrig(u)

\* disable() has just restored translated units while requests are outstanding
C2_Witness ==
  /\ ev.op = "disable" /\ ev.restored > 0
  /\ calls # {}
  /\ \A u \in DOMAIN shown : shown[u] = UnitOrig(u)

\* C3: in every state in which the pipeline is disabled the root observer
\* is null and there is no sub-document observer.
C3_NoObserverWhileDisabled ==
  ~isEnabled => observer = 0 /\ shadowObservers = <<>>

\* C4: enable() on an enabled pipeline changes nothing: no pass, nothing
\* added to the in-flight set, no provider call, no application.
C4_EnableIdempotent ==
  [][ev'.op = "enable" /\ isEnabled =>
       /\ UNCHANGED agentVars
       /\ ev'.sent = 0 /\ ev'.applyCalls = 0]_vars

\* enable() was called while the initial pass of an earlier enable() is running
C4_Witness ==
  /\ ev.op = "enable" /\ ev.noop
  /\ isEnabled
  /\ \E id \in DOMAIN invs : invs[id].owner = "enable"

\* C5: no text unit is contained in two outstanding provider requests.
C5_UnitInOneRequest ==
  \A c1, c2 \in calls : c1 # c2 => Range(c1.nodes) \cap Range(c2.nodes) = {}

\* C6: one scheduler invocation never has more than MAX_CONCURRENT_REQUESTS
\* provider calls outstanding.
C6_WindowCeiling ==
  \A id \in DOMAIN hist : Cardinality(CallsOf(id)) <= MAX_CONCURRENT_REQUESTS

\* an invocation with at least 10 batches has a full window outstanding
C6_Witness ==
  \E id \in DOMAIN invs :
    /\ hist[id].nb >= 10
    /\ Cardinality(CallsOf(id)) = MAX_CONCURRENT_REQUESTS

\* C7: over all running scheduler invocations together, at most
\* MAX_CONCURRENT_REQUESTS provider calls are outstanding.
C7_GlobalCeiling == Cardinality(calls) <= MAX_CONCURRENT_REQUESTS

\* C8: n >= 1 uncached units are cut into ceil(n / B) batches, B in every
\* batch but the last and 1..B in the last; the batches in order give the
\* uncached units in order; each batch's nodes are its units, in order.
C8_Partition ==
  pout.done /\ Len(pout.uncached) >= 1 =>
    LET u == pout.uncached
        bs == pout.batches
        n == Len(u)
        B == MAX_TEXTS_PER_REQUEST
        nodes == PartNodes(pin.n)
    IN /\ Len(bs) * B >= n /\ (Len(bs) - 1) * B < n
       /\ \A k \in 1 .. Len(bs) - 1 : Len(bs[k].indices) = B
       /\ Len(bs[Len(bs)].indices) = n - (Len(bs) - 1) * B
       /\ Len(bs[Len(bs)].indices) \in 1 .. B
       /\ \A k \in 1 .. Len(bs) : \A i \in 1 .. Len(bs[k].indices) :
            bs[k].indices[i] = u[(k - 1) * B + i]
       /\ \A k \in 1 .. Len(bs) :
            /\ Len(bs[k].nodes) = Len(bs[k].indices)
            /\ \A i \in 1 .. Len(bs[k].nodes) :
                 /\ bs[k].nodes[i] = nodes[bs[k].indices[i].index]
                 /\ bs[k].nodes[i].originalText = bs[k].indices[i].text

\* 20 uncached units have been cut into batches of 8, 8 and 4
C8_Witness ==
  /\ pout.done
  /\ Len(pout.uncached) = 20
  /\ [k \in 1 .. Len(pout.batches) |-> Len(pout.batches[k].indices)] = <<8, 8, 4>>

\* C9: an invocation that is over has sent every one of its batches to the
\* provider, whatever happened to the other batches.
C9_EveryBatchSent ==
  \A id \in DOMAIN hist \ DOMAIN invs :
    \A b \in 1 .. hist[id].nb : hist[id].cnt[b] >= 1

\* C10: a failure response or a rejected call mutates no unit, writes
\* nothing to the cache and does not send the batch again; no batch is sent
\* to the provider more than once.
C10_FailedBatchFinal ==
  [][ev'.op = "response" /\ ev'.out # "ok" =>
       /\ shown' = shown
       /\ applied' = applied
       /\ cache' = cache
       /\ \A c \in calls' \ calls : c.inv \in DOMAIN hist => hist[c.inv].cnt[c.b] = 0
       /\ \A id \in DOMAIN hist' : \A b \in 1 .. hist'[id].nb : hist'[id].cnt[b] <= 1]_vars

\* a batch has failed next to a sibling that was applied: its units show
\* their original text and its texts are not in the cache
C10_Witness ==
  /\ ev.op = "response" /\ ev.out # "ok"
  /\ isEnabled
  /\ DOMAIN applied # {}
  /\ \E u \in DOMAIN shown :
       /\ u \notin DOMAIN applied
       /\ shown[u] = UnitOrig(u)
       /\ CacheKey(UnitOrig(u), settings.sourceLang, settings.targetLang) \notin DOMAIN cache
       /\ u \in translatingNodes \/ \E id \in DOMAIN hist : hist[id].aborted

\* C11: the in-flight set holds exactly the units of the scheduler
\* invocations that are running: an invocation that completes, normally or
\* by a rejected call, leaves none of its units behind, and with no
\* invocation running the set is empty.
C11_InFlightOfRunning ==
  /\ translatingNodes = UNION {invs[id].nodes : id \in DOMAIN invs}
  /\ DOMAIN invs = {} => translatingNodes = {}

\* an invocation has just ended by a rejected call while a sibling request
\* is still outstanding, and the in-flight set is empty
C11_Witness ==
  /\ ev.op = "response" /\ ev.out = "reject"
  /\ \E id \in DOMAIN hist : hist[id].aborted /\ hist[id].nb > 1
  /\ calls # {}
  /\ DOMAIN invs = {}
  /\ translatingNodes = {}

\* C12: whatever a unit displays is its own original text or the
\* translation returned for its own original text, in whatever order the
\* batches resolve and whichever units were served from the cache; the
\* recorded original of a mutated unit is its own original text.
C12_OwnTranslation ==
  /\ \A u \in DOMAIN shown :
       \/ shown[u] = UnitOrig(u)
       \/ shown[u] = ProviderTranslate(UnitOrig(u), settings.targetLang)
  /\ \A u \in DOMAIN applied : applied[u] = UnitOrig(u)

\* a pass has applied cache hits and sent the remaining units in a batch:
\* cached units show their translation next to units still in flight
C12_Witness ==
  /\ ev.op = "enable" /\ ev.hits > 0 /\ ev.sent > 0 /\ ev.applyCalls > 0
  /\ \E u, v \in translatingNodes :
       /\ shown[u] = ProviderTranslate(UnitOrig(u), settings.targetLang)
       /\ shown[v] = UnitOrig(v)
       /\ \E c \in calls : v \in Range(c.nodes)

\* C13: a watcher never has more than one timer armed; it has one exactly
\* when its pending list is not empty; a notification that arrives while
\* the timer is armed adds to the pending list and arms nothing; the expiry
\* of the timer drains the whole list in one flush.
C13_OneTimerPerWatcher ==
  [][/\ \A w \in DOMAIN watchers' :
          /\ watchers'[w].arms <= 1
          /\ watchers'[w].timer <=> watchers'[w].arms = 1
          /\ watchers'[w].timer <=> watchers'[w].pending # <<>>
          /\ (w \in DOMAIN watchers /\ watchers[w].timer /\ watchers'[w].timer) =>
                /\ watchers'[w].arms = watchers[w].arms
                /\ Len(watchers[w].pending) <= Len(watchers'[w].pending)
                /\ SubSeq(watchers'[w].pending, 1, Len(watchers[w].pending))
                     = watchers[w].pending
     /\ ev'.op = "flush" =>
          \E w \in DOMAIN watchers :
            /\ watchers[w].timer
            /\ ev'.drained = Cardinality({i \in 1 .. Len(watchers[w].pending) :
                                            watchers[w].pending[i].part = "el"})
            /\ w \in DOMAIN watchers' =>
                  watchers'[w].pending = <<>> /\ ~watchers'[w].timer]_vars

\* one flush has drained the elements of two mutation notifications
C13_Witness ==
  /\ ev.op = "flush" /\ ev.drained >= 2
  /\ observer \in DOMAIN watchers
  /\ watchers[observer].pending = <<>>
  /\ ~watchers[observer].timer

\* C14: in every state in which the pipeline is enabled the root observer
\* is installed and every sub-document attached under the body is observed.
C14_ObservedWhileEnabled ==
  isEnabled =>
    /\ observer # 0
    /\ \A r \in Range(ShadowRootsOf(body)) :
         \E i \in 1 .. Len(shadowObservers) :
           shadowObservers[i].root = <<r.e.id, r.part>>

\* C15: a unit whose original text is labelled with a language that is
\* neither "mixed" nor the source language is never in the in-flight set,
\* never among the texts looked up in the cache, never in a provider
\* request and never mutated; a text labelled "mixed" passes the gate.
C15_LanguageGate ==
  \A u \in DOMAIN shown :
    /\ detectLanguage(UnitOrig(u)) \notin {"mixed", settings.sourceLang} =>
         /\ u \notin translatingNodes
         /\ u \notin ev.looked
         /\ \A c \in calls : u \notin Range(c.nodes)
         /\ u \notin DOMAIN applied
         /\ shown[u] = UnitOrig(u)
    /\ detectLanguage(UnitOrig(u)) = "mixed" =>
         isSourceLanguage(UnitOrig(u), settings.sourceLang)

\* one flush has looked up the card's English text and the widget's mixed
\* text and has left out the card's Korean text; the mixed text is on its
\* way to the provider
C15_Witness ==
  /\ ev.op = "flush"
  /\ detectLanguage(UnitOrig(KoUnit)) = "ko" /\ settings.sourceLang = "en"
  /\ detectLanguage(UnitOrig(WidgetOwnUnit)) = "mixed"
  /\ {CardUnit, WidgetOwnUnit} \subseteq ev.looked
  /\ KoUnit \notin ev.looked
  /\ \E c \in calls : WidgetOwnUnit \in Range(c.nodes)

\* C16: with h, j, c, l the Hangul, kana, ideograph and Latin counts and
\* t their sum, the label is "mixed" for t = 0 and otherwise that of the
\* first rule that applies: h/t > 0.6 Korean; j/t > 0.3 Japanese;
\* c/t > 0.5 and j/t < 0.1 Chinese; h/t, j/t, c/t all < 0.1 English;
\* else "mixed".  Every comparison is strict.
C16_DetectLanguage ==
  pout.done =>
    LET h == pin.h
        j == pin.j
        c == pin.c
        l == pin.a + pin.x
        t == h + j + c + l
        \* n / t > p / 10 and n / t < p / 10 for t > 0
        Above(n, p) == 10 * n > p * t
        Below(n, p) == 10 * n < p * t
        expected ==
          IF t = 0 THEN "mixed"
          ELSE IF Above(h, 6) THEN "ko"
          ELSE IF Above(j, 3) THEN "ja"
          ELSE IF Above(c, 5) /\ Below(j, 1) THEN "zh"
          ELSE IF Below(h, 1) /\ Below(j, 1) /\ Below(c, 1) THEN "en"
          ELSE "mixed"
    IN pout.label = expected

\* a text whose Hangul ratio is exactly 0.6 has been labelled "mixed"
C16_Witness ==
  /\ pout.done
  /\ pin.h = 3 /\ pin.a = 2 /\ pin.x = 0 /\ pin.j = 0 /\ pin.c = 0
  /\ pout.label = "mixed"

\* C17: the result of sortByViewport is a permutation of its input; every
\* unit inside the viewport comes before every unit outside it; inside
\* each of the two groups the units keep the order they had in the input;
\* the input list is as it was.
C17_SortByViewport ==
  pout.done =>
    LET out == pout.sorted
        Pos(n) == CHOOSE i \in 1 .. Len(pin) : pin[i] = n
    IN /\ Len(out) = Len(pin)
       /\ Range(out) = Range(pin)
       /\ \A i, j \in 1 .. Len(out) :
            i < j =>
              /\ ~(~InViewportUnit(out[i].node) /\ InViewportUnit(out[j].node))
              /\ InViewportUnit(out[i].node) = InViewportUnit(out[j].node) =>
                   Pos(out[i]) < Pos(out[j])
       /\ pout.input = pin

\* units 6, 2, 3, 1 (6 and 3 outside the viewport) have been sorted to
\* 2, 1, 6, 3
C17_Witness ==
  /\ pout.done
  /\ [i \in 1 .. Len(pin) |-> pin[i].node] = <<6, 2, 3, 1>>
  /\ ~InViewportUnit(6) /\ ~InViewportUnit(3) /\ InViewportUnit(2) /\ InViewportUnit(1)
  /\ [i \in 1 .. Len(pout.sorted) |-> pout.sorted[i].node] = <<2, 1, 6, 3>>

\* C18: extractTextNodes yields a text node exactly when its parent is no
\* skip tag, not editable and no input, textarea or select, its trimmed
\* text has 2 to 5000 characters, its parent is visible and at least 0.3 of
\* its characters are letters a-z, A-Z or Hangul syllables; the nodes that
\* pass are yielded once each, in document order, light tree first and then
\* the sub-documents of the descendants.
C18_ExtractFilters ==
  pout.done =>
    LET Passes(u) ==
          LET p == Parent(u)
              t == UnitOrig(u)
              len == t.a + t.x + t.h + t.j + t.c + t.o
          IN /\ p.tagName \notin SKIP_TAGS /\ ~p.isContentEditable /\ ~p.control
             /\ len >= 2 /\ len <= 5000
             /\ p.display # "none" /\ p.visibility # "hidden" /\ p.opacity # "0"
             /\ ~(p.width = 0 /\ p.height = 0)
             /\ 10 * (t.a + t.h) >= 3 * len
        Infos(us) == [i \in 1 .. Len(us) |-> [node |-> us[i], originalText |-> UnitOrig(us[i])]]
    IN /\ pout.fromElement = Infos(SelectSeq(pin.light \o pin.child, Passes))
       /\ pout.fromBody = Infos(SelectSeq(pin.light \o pin.own \o pin.child, Passes))

\* of a plain paragraph, a paragraph with display none and a two-letter
\* text in a nested sub-document, the first and the last have been yielded
C18_Witness ==
  /\ pout.done
  /\ pin.light = <<CodeUnit + 1, CodeUnit + 11>>
  /\ pin.child = <<CodeUnit + 8>>
  /\ Parent(CodeUnit + 11).display = "none"
  /\ TextLength(UnitOrig(CodeUnit + 8)) = 2
  /\ [i \in 1 .. Len(pout.fromElement) |-> pout.fromElement[i].node]
       = <<CodeUnit + 1, CodeUnit + 8>>
  /\ [i \in 1 .. Len(pout.fromBody) |-> pout.fromBody[i].node]
       = <<CodeUnit + 1, WidgetOwnUnit, CodeUnit + 8>>

\* C19: translateSelection(text) adds one provider request holding exactly
\* that text; that step and the step that processes the outcome (success,
\* failure response, rejected call) leave the cache, the in-flight set, the
\* enabled flag, the observers, the pipeline's requests and every unit's
\* text as they were, whether the pipeline is enabled or not.  The text
\* nodes that exist keep their text; the step gives the tooltip a new one.
C19_SelectionFrame ==
  [][ev'.op \in {"select", "selection"} =>
       /\ UNCHANGED <<cache, translatingNodes, isEnabled, observer, shadowObservers,
                      applied, calls, invs, watchers>>
       /\ \A u \in DOMAIN shown : shown'[u] = shown[u]
       /\ DOMAIN shown' = DOMAIN shown \cup {-tooltip'.node}
       /\ ev'.op = "select" =>
            /\ Len(selCalls') = Len(selCalls) + 1
            /\ SubSeq(selCalls', 1, Len(selCalls)) = selCalls
            /\ selCalls'[Len(selCalls')].texts = <<ev'.sel>>
       /\ ev'.op = "selection" => Len(selCalls') = Len(selCalls) - 1]_vars

\* the translation of a selected sentence of the page is in the tooltip
\* while the pipeline is enabled with requests outstanding: the unit with
\* that sentence shows its original and the cache does not hold it
C19_Witness ==
  /\ ev.op = "selection" /\ ev.out = "ok"
  /\ isEnabled /\ calls # {}
  /\ tooltip.kind = "result"
  /\ shown[-tooltip.node] = ProviderTranslate(UnitOrig(1), settings.targetLang)
  /\ shown[1] = UnitOrig(1)
  /\ CacheKey(UnitOrig(1), settings.sourceLang, settings.targetLang) \notin DOMAIN cache

\* C20: a POST request whose texts is not a list, is empty or has more
\* than 50 items, or that lacks a language code, gets a JSON answer with
\* success false and an error message, and the provider is not called; a
\* POST request with a list of 1 to 50 texts and both codes makes exactly
\* one call of the provider function, which sends at most one request.
C20_EndpointValidation ==
  (pout.done /\ pin.method = "POST") =>
    LET invalid == \/ ~pin.hasBody \/ ~pin.texts.isArray
                   \/ pin.texts.n = 0 \/ pin.texts.n > 50
                   \/ ~pin.sourceLang \/ ~pin.targetLang
    IN /\ invalid => /\ pout.json /\ ~pout.success /\ pout.error
                      /\ pout.providerCalls = 0 /\ pout.fetches = 0
       /\ ~invalid => /\ pout.providerCalls = 1
                       /\ pout.fetches = (IF pin.hasKey THEN 1 ELSE 0)
                       /\ pout.success = (pin.hasKey /\ pin.provider = "ok")
                       /\ pout.json /\ pout.error = ~pout.success

\* a list of 51 texts with both codes and a working provider is refused
\* with status 400 and nothing is sent
C20_Witness ==
  /\ pout.done /\ pin.method = "POST" /\ pin.hasBody
  /\ pin.texts.isArray /\ pin.texts.n = 51
  /\ pin.sourceLang /\ pin.targetLang /\ pin.hasKey /\ pin.provider = "ok"
  /\ pout.status = 400 /\ ~pout.success /\ pout.providerCalls = 0

\* C21: on success the endpoint's data has exactly one pair per input
\* text, in input order, with data[i].original = texts[i], whatever the
\* provider returned: fewer, as many or more translations than inputs.
C21_OnePairPerText ==
  pout.done =>
    /\ Len(pout.data) = Len(pin.texts)
    /\ \A i \in 1 .. Len(pin.texts) : pout.data[i].original = pin.texts[i]

\* the provider returned fewer translations than texts and the last pair
\* carries the original as its translation
C21_Witness ==
  /\ pout.done /\ pin.parsed.has
  /\ Len(pin.texts) = 3 /\ Len(pin.parsed.translations) = 1
  /\ TextLength(pin.parsed.translations[1]) > 0
  /\ pout.data[1].translated = pin.parsed.translations[1]
  /\ pout.data[3] = [original |-> pin.texts[3], translated |-> pin.texts[3]]

\* C22: when every provider call settles, every TOGGLE_TRANSLATION message
\* is eventually answered, and the value it reports (the enabled flag at
\* the moment of the answer) is the per-domain flag that this toggle wrote.
C22_ToggleAnswered ==
  \A t \in 1 .. ToggleOps :
    [](t <= Len(toggles) =>
         <>(/\ t <= Len(toggles)
            /\ toggles[t].phase = "answered"
            /\ toggles[t].reported = toggles[t].wrote))

\* C23: every TRANSLATE_TEXT request gets exactly one response; when the
\* translation client raises an error (no credentials, provider response
\* not ok, malformed payload) the response has success false and an error
\* message; when it translates, success true and one pair per text.
C23_OneResponse ==
  (pout.done /\ pin.message.type = "TRANSLATE_TEXT") =>
    /\ Len(pout.responses) = 1
    /\ LET r == pout.responses[1]
           p == pin.message.payload
           asked == p.has /\ p.hasTexts /\ p.n > 0
       IN /\ r.success = ~r.hasError
          /\ r.success = r.hasData
          /\ (asked /\ pin.client # "ok") => ~r.success /\ r.hasError
          /\ (asked /\ pin.client = "ok") => r.success /\ r.n = p.n

\* a request with texts whose client has no credentials was answered with
\* a failure response
C23_Witness ==
  /\ pout.done /\ pin.message.type = "TRANSLATE_TEXT"
  /\ pin.message.payload.has /\ pin.message.payload.hasTexts /\ pin.message.payload.n = 8
  /\ pin.client = "no_credentials"
  /\ pout.responses = <<TranslationResponse(FALSE, FALSE, 0, TRUE)>>

\* C24: the step that processes a success response stores every returned
\* pair of the batch in the cache, enabled or not; the text in the
\* disallowed tag is what it was.
C24_PairsStored ==
  [][ev'.op = "response" /\ ev'.out = "ok" =>
       /\ \A call \in calls \ calls' : \A i \in 1 .. Len(call.texts) :
            LET key == CacheKey(call.texts[i], settings.sourceLang, settings.targetLang)
            IN /\ key \in DOMAIN cache'
               /\ cache'[key] \in {ProviderTranslate(call.texts[i], call.tgt), call.texts[i]}
       /\ shown'[CodeUnit] = UnitOrig(CodeUnit)]_vars

\* the response with both translations arrived after disable(): both pairs
\* are in the cache, no unit shows a translation, the text in the CODE
\* element is untouched and is not in the cache
C24_Witness ==
  /\ ev.op = "response" /\ ev.out = "ok" /\ ev.applyCalls = 0
  /\ ~isEnabled
  /\ \A u \in {1, 2} :
       LET key == CacheKey(UnitOrig(u), settings.sourceLang, settings.targetLang)
       IN /\ key \in DOMAIN cache
          /\ cache[key] = ProviderTranslate(UnitOrig(u), settings.targetLang)
          /\ shown[u] = UnitOrig(u)
  /\ shown[CodeUnit] = UnitOrig(CodeUnit)
  /\ CacheKey(UnitOrig(CodeUnit), settings.sourceLang, settings.targetLang) \notin DOMAIN cache

\* C25: when every provider call settles (success, failure response or
\* rejected call), again and again no scheduler invocation is running and
\* the in-flight set is empty: every invocation completes and no unit
\* stays in flight.
C25_InFlightDrains ==
  []<>(DOMAIN invs = {} /\ translatingNodes = {})

\* two invocations have run, one ended by a rejected call and one that
\* sent two batches and completed: every call has settled and the in-flight
\* set is empty again
C25_Witness ==
  /\ ev.op = "response"
  /\ DOMAIN invs = {} /\ translatingNodes = {} /\ calls = {}
  /\ \E id \in DOMAIN hist : hist[id].aborted
  /\ \E id \in DOMAIN hist :
       /\ hist[id].nb >= 2
       /\ ~hist[id].aborted
       /\ \A b \in 1 .. hist[id].nb : hist[id].cnt[b] = 1

\* C26: no watched root has two active observers: the document root has
\* the one in the observer field, and no two entries of the sub-document
\* observers watch the same sub-document root.
C26_OneObserverPerRoot ==
  \A i, j \in 1 .. Len(shadowObservers) :
    shadowObservers[i].root = shadowObservers[j].root => i = j

\* C27: the step that processes a success response stores every pair of
\* the batch under the language pair that was sent in the batch's request.
C27_StoredUnderRequestPair ==
  [][ev'.op = "response" /\ ev'.out = "ok" =>
       \A call \in calls \ calls' : \A i \in 1 .. Len(call.texts) :
         LET key == CacheKey(call.texts[i], call.src, call.tgt)
         IN /\ key \in DOMAIN cache'
            /\ cache'[key] \in {ProviderTranslate(call.texts[i], call.tgt), call.texts[i]}]_vars

\* C28: a step that starts and ends with the pipeline disabled (anything
\* between disable() and the next enable()) runs no extraction pass and
\* issues no provider request.
C28_NoWorkWhileDisabled ==
  [][(~isEnabled /\ ~isEnabled') =>
       /\ ev'.sent = 0
       /\ ev'.looked = {}
       /\ calls' \subseteq calls]_vars

\* C29: the classifier's label is one of ko, ja, zh, en and mixed; with
\* the source language es, fr or de a text is accepted exactly when its
\* label is mixed; with any source language a mixed text is accepted.
C29_GateLabels ==
  pout.done =>
    /\ pout.label \in {"ko", "ja", "zh", "en", "mixed"}
    /\ \A s \in {"es", "fr", "de"} : pout.accepts[s] <=> pout.label = "mixed"
    /\ \A s \in LanguageCode : pout.label = "mixed" => pout.accepts[s]
    /\ \A s \in {"ko", "ja", "zh", "en"} : pout.accepts[s] <=> pout.label \in {s, "mixed"}

\* a text of Latin letters with an accented one is labelled en: it is
\* refused when the source language is fr and accepted when it is en
C29_Witness ==
  /\ pout.done
  /\ pin.a > 0 /\ pin.x > 0 /\ pin.h = 0 /\ pin.j = 0 /\ pin.c = 0
  /\ pout.label = "en"
  /\ ~pout.accepts["fr"] /\ pout.accepts["en"]

====
